---------------------------- MODULE Spec2Model ----------------------------
(***************************************************************************)
(* Model of src/src/poly-decomp-es.ts: convex decomposition of 2D polygons.*)
(*                                                                         *)
(* Numbers.  The library computes with IEEE doubles.  The model computes   *)
(* with exact rationals: a Point is a record [x, y, d, id] standing for    *)
(* the coordinates (x/d, y/d), d > 0, and id names the JavaScript array    *)
(* object that holds the point (Array.prototype.indexOf compares object    *)
(* identity, not coordinates).  Every input vertex has integer             *)
(* coordinates (d = 1); only line intersections and Steiner points have    *)
(* d > 1.  All sums and products of integers in the modelled range are     *)
(* exact in a double, so the two agree on every sign test over inputs.     *)
(***************************************************************************)
EXTENDS Integers, Sequences, FiniteSets, TLC

(***************************************************************************)
(* Bounds of the model.                                                    *)
(***************************************************************************)
MaxX == 2
MaxY == 2
MaxLen == 4
MaxSimpleLen == 6
MaxSliceY == 1
MaxSliceLen == 6
MaxPrecision == 1
MaxCalls == 2
MaxDecompCalls == 1
MaxLevelArg == 3
MaxIndex == 9

---------------------------------------------------------------------------
(***************************************************************************)
(* Arithmetic helpers.                                                     *)
(***************************************************************************)
Abs(n) == IF n < 0 THEN -n ELSE n

RECURSIVE Gcd(_, _)
Gcd(a, b) == IF b = 0 THEN a ELSE Gcd(b, a % b)

\* JavaScript's remainder keeps the sign of the dividend.
JSRem(i, s) == IF i >= 0 THEN i % s ELSE -((-i) % s)

\* the value read from an array position that does not exist
undefined == [undef |-> TRUE]

\* Arrays are objects too.  The caller's vertex array has the address
\* InputRef; the arrays a decomposition allocates get the addresses 1, 2, ...
InputRef == 0

\* A point with rational coordinates (x/d, y/d), reduced, d > 0.
Pt(x, y, d, id) ==
    LET sx == IF d < 0 THEN -x ELSE x
        sy == IF d < 0 THEN -y ELSE y
        sd == Abs(d)
        g  == Gcd(Gcd(Abs(sx), Abs(sy)), sd)
    IN  [x |-> sx \div g, y |-> sy \div g, d |-> sd \div g, id |-> id]

\* id of a point object created inside the library (never an input vertex)
FreshId == 0

\* Rational scalars are pairs <<numerator, denominator>>, denominator >= 0;
\* Number.MAX_VALUE, used by the code only as "larger than any distance",
\* is <<1, 0>>.
MAX_VALUE == <<1, 0>>
RatLess(p, q) == p[1] * q[2] < q[1] * p[2]

---------------------------------------------------------------------------
(***************************************************************************)
(* Geometric predicates.                                                   *)
(***************************************************************************)
\* (b-a) x (c-a), multiplied by the positive factor a.d^2 * b.d * c.d:
\* the code uses only the sign of triangleArea.
triangleArea(a, b, c) ==
    (b.x * a.d - a.x * b.d) * (c.y * a.d - a.y * c.d)
  - (c.x * a.d - a.x * c.d) * (b.y * a.d - a.y * b.d)

isLeft(a, b, c)    == triangleArea(a, b, c) > 0
isLeftOn(a, b, c)  == triangleArea(a, b, c) >= 0
isRight(a, b, c)   == triangleArea(a, b, c) < 0
isRightOn(a, b, c) == triangleArea(a, b, c) <= 0

sqdist(a, b) ==
    LET dx == b.x * a.d - a.x * b.d
        dy == b.y * a.d - a.y * b.d
        dd == a.d * b.d
    IN  <<dx * dx + dy * dy, dd * dd>>

\* Coefficients of the line a*X + b*Y = c through p1 and p2, multiplied by
\* the positive factor p1.d * p2.d (the intersection does not depend on it).
LineA(p1, p2) == p2.y * p1.d - p1.y * p2.d
LineB(p1, p2) == p1.x * p2.d - p2.x * p1.d
LineC(p1, p2) == p2.y * p1.x - p2.x * p1.y

\* |a - b| <= precision, for integers
scalarsEqual(a, b, precision) == Abs(a - b) <= precision

\* pointsEqual is used on input vertices only (d = 1)
pointsEqual(a, b, precision) ==
    scalarsEqual(a.x, b.x, precision) /\ scalarsEqual(a.y, b.y, precision)

\* lineInt(l1, l2) with precision 0, l1 = [p1, p2], l2 = [q1, q2]
lineInt(p1, p2, q1, q2) ==
    LET a1 == LineA(p1, p2)  b1 == LineB(p1, p2)  c1 == LineC(p1, p2)
        a2 == LineA(q1, q2)  b2 == LineB(q1, q2)  c2 == LineC(q1, q2)
        det == a1 * b2 - a2 * b1
    IN  IF det # 0
        THEN Pt(b2 * c1 - b1 * c2, a1 * c2 - a2 * c1, det, FreshId)
        ELSE Pt(0, 0, 1, FreshId)

\* getIntersectionPoint(p1, p2, q1, q2) with delta 0
getIntersectionPoint(p1, p2, q1, q2) ==
    LET a1 == LineA(p1, p2)  b1 == LineB(p1, p2)  c1 == LineC(p1, p2)
        a2 == LineA(q1, q2)  b2 == LineB(q1, q2)  c2 == LineC(q1, q2)
        det == a1 * b2 - a2 * b1
    IN  IF det # 0
        THEN Pt(b2 * c1 - b1 * c2, a1 * c2 - a2 * c1, det, FreshId)
        ELSE Pt(0, 0, 1, FreshId)

\* 0 <= n/m <= 1 for integers n and m # 0
InUnit(n, m) == IF m > 0 THEN 0 <= n /\ n <= m ELSE n <= 0 /\ m <= n

\* s = ns/den and t = nt/(-den) of the code, with every difference of
\* coordinates multiplied by the denominators of its two points.
lineSegmentsIntersect(p1, p2, q1, q2) ==
    LET dx == p2.x * p1.d - p1.x * p2.d
        dy == p2.y * p1.d - p1.y * p2.d
        da == q2.x * q1.d - q1.x * q2.d
        db == q2.y * q1.d - q1.y * q2.d
        ex == q1.x * p1.d - p1.x * q1.d
        ey == q1.y * p1.d - p1.y * q1.d
        den == da * dy - db * dx
    IN  IF den = 0
        THEN FALSE
        ELSE /\ InUnit((dx * ey - dy * ex) * q2.d, den * p1.d)
             /\ InUnit((db * ex - da * ey) * p2.d, (-den) * q1.d)

---------------------------------------------------------------------------
(***************************************************************************)
(* Polygon utilities.  A Polygon is a sequence of Points; the code's index *)
(* i is position i + 1 of the sequence.                                    *)
(***************************************************************************)
polygonAt(polygon, i) ==
    LET s == Len(polygon)
        k == IF s = 0 THEN -1
             ELSE IF i < 0 THEN JSRem(i, s) + s ELSE JSRem(i, s)
    IN  IF 0 <= k /\ k < s THEN polygon[k + 1] ELSE undefined

\* the points poly[from], ..., poly[to - 1] pushed onto polygon
polygonAppend(polygon, poly, from, to) ==
    IF from < to THEN polygon \o SubSeq(poly, from + 1, to) ELSE polygon

\* polygonReverse with shift() in place of pop(): the order comes out unchanged
polygonReverseShift(polygon) ==
    [k \in 1..Len(polygon) |-> polygon[k]]

polygonReverse(polygon) ==
    [k \in 1..Len(polygon) |-> polygon[Len(polygon) + 1 - k]]

\* polygonIsReflex with isRightOn in place of isRight
polygonIsReflexOn(polygon, i) ==
    isRightOn(polygonAt(polygon, i - 1), polygonAt(polygon, i), polygonAt(polygon, i + 1))

polygonIsReflex(polygon, i) ==
    isRight(polygonAt(polygon, i - 1), polygonAt(polygon, i), polygonAt(polygon, i + 1))

\* polygonIsReflex hands undefined to triangleArea, which reads a coordinate of
\* it: a TypeError
polygonIsReflexThrows(polygon, i) ==
    undefined \in {polygonAt(polygon, i - 1), polygonAt(polygon, i), polygonAt(polygon, i + 1)}

\* the loop of makeCCW without the tie-break on x
RECURSIVE BottomRightNoTie(_, _, _)
BottomRightNoTie(v, i, br) ==
    IF i >= Len(v) THEN br
    ELSE IF v[i + 1].y < v[br + 1].y
         THEN BottomRightNoTie(v, i + 1, i)
         ELSE BottomRightNoTie(v, i + 1, br)

\* index of the bottom-most, then right-most vertex: the loop of makeCCW
RECURSIVE BottomRight(_, _, _)
BottomRight(v, i, br) ==
    IF i >= Len(v) THEN br
    ELSE IF \/ v[i + 1].y < v[br + 1].y
            \/ (v[i + 1].y = v[br + 1].y /\ v[i + 1].x > v[br + 1].x)
         THEN BottomRight(v, i + 1, i)
         ELSE BottomRight(v, i + 1, br)

\* makeCCW: the polygon afterwards and the returned boolean.  With fewer than
\* two vertices polygonAt yields undefined and triangleArea throws a TypeError.
makeCCW(polygon) ==
    LET br == BottomRight(polygon, 1, 0)
        a == polygonAt(polygon, br - 1)
        b == polygonAt(polygon, br)
        c == polygonAt(polygon, br + 1)
    IN  IF undefined \in {a, b, c}
        THEN [polygon |-> polygon, ret |-> [threw |-> TRUE]]
        ELSE IF ~ isLeft(a, b, c)
        THEN [polygon |-> polygonReverse(polygon), ret |-> [threw |-> FALSE, val |-> TRUE]]
        ELSE [polygon |-> polygon, ret |-> [threw |-> FALSE, val |-> FALSE]]

\* one pass of the edge loop of polygonCanSee, from edge i on
RECURSIVE CanSeeFrom(_, _, _, _)
CanSeeFrom(polygon, a, b, i) ==
    LET n == Len(polygon)
        pa == polygonAt(polygon, a)
        pb == polygonAt(polygon, b)
    IN  IF i = n THEN TRUE
        ELSE IF (i + 1) % n = a \/ i = a THEN CanSeeFrom(polygon, a, b, i + 1)
        ELSE IF /\ isLeftOn(pa, pb, polygonAt(polygon, i + 1))
                /\ isRightOn(pa, pb, polygonAt(polygon, i))
                /\ RatLess(sqdist(pa, lineInt(pa, pb, polygonAt(polygon, i),
                                               polygonAt(polygon, i + 1))),
                           sqdist(pa, pb))
             THEN FALSE
             ELSE CanSeeFrom(polygon, a, b, i + 1)

polygonCanSee(polygon, a, b) ==
    IF /\ isLeftOn(polygonAt(polygon, a + 1), polygonAt(polygon, a), polygonAt(polygon, b))
       /\ isRightOn(polygonAt(polygon, a - 1), polygonAt(polygon, a), polygonAt(polygon, b))
    THEN FALSE
    ELSE CanSeeFrom(polygon, a, b, 0)

\* b is passed as the code passes it: it may exceed the polygon's length
polygonCanSee2(polygon, a, b) ==
    \A i \in 0..(Len(polygon) - 1) :
        \/ i = a \/ i = b
        \/ (i + 1) % Len(polygon) = a \/ (i + 1) % Len(polygon) = b
        \/ ~ lineSegmentsIntersect(polygonAt(polygon, a), polygonAt(polygon, b),
                                   polygonAt(polygon, i), polygonAt(polygon, i + 1))

\* polygonCopy whose first loop stops before vertex j
polygonCopyShort(polygon, i, j) ==
    IF i < j
    THEN SubSeq(polygon, i + 1, j)
    ELSE SubSeq(polygon, 1, j + 1) \o SubSeq(polygon, i + 1, Len(polygon))

\* polygonCopy into a cleared target
polygonCopy(polygon, i, j) ==
    IF i < j
    THEN SubSeq(polygon, i + 1, j + 1)
    ELSE SubSeq(polygon, 1, j + 1) \o SubSeq(polygon, i + 1, Len(polygon))

---------------------------------------------------------------------------
(***************************************************************************)
(* Exhaustive decomposer.  A cut edge is a pair <<p, q>> of Points.        *)
(***************************************************************************)
\* The loops of getCutEdges over i and j, carrying min and nDiags.
RECURSIVE getCutEdges(_)
RECURSIVE CutLoop(_, _, _, _, _)
CutLoop(polygon, i, j, min, nDiags) ==
    IF i >= Len(polygon) THEN min
    ELSE IF ~ polygonIsReflex(polygon, i) \/ j >= Len(polygon)
         THEN CutLoop(polygon, i + 1, 0, min, nDiags)
    ELSE IF ~ polygonCanSee(polygon, i, j)
         THEN CutLoop(polygon, i, j + 1, min, nDiags)
    ELSE LET tmp1 == getCutEdges(polygonCopy(polygon, i, j))
                     \o getCutEdges(polygonCopy(polygon, j, i))
         IN  IF RatLess(<<Len(tmp1), 1>>, nDiags)
             THEN CutLoop(polygon, i, j + 1,
                          Append(tmp1, <<polygonAt(polygon, i), polygonAt(polygon, j)>>),
                          <<Len(tmp1), 1>>)
             ELSE CutLoop(polygon, i, j + 1, min, nDiags)

getCutEdges(polygon) == CutLoop(polygon, 0, 0, <<>>, MAX_VALUE)

\* getCutEdges calls polygonIsReflex(polygon, i) for every i below the length,
\* so it throws when one of these calls does.  The copies it recurses on have
\* two or more vertices, where polygonAt never yields undefined.
getCutEdgesThrows(polygon) ==
    \E i \in 0..(Len(polygon) - 1) : polygonIsReflexThrows(polygon, i)

\* Array.prototype.indexOf: the first position holding the same object, or -1
RECURSIVE IndexFrom(_, _, _)
IndexFrom(polygon, point, k) ==
    IF k >= Len(polygon) THEN -1
    ELSE IF polygon[k + 1].id = point.id THEN k
    ELSE IndexFrom(polygon, point, k + 1)

indexOf(polygon, point) == IndexFrom(polygon, point, 0)

\* slicePolygon with one scratch array as the target of both copies: the
\* second copy overwrites the first
SliceEdgeScratch(polygon, cutEdge, heap) ==
    LET i == indexOf(polygon, cutEdge[1])
        j == indexOf(polygon, cutEdge[2])
    IN  IF i # -1 /\ j # -1
        THEN [ok |-> TRUE,
              polys |-> <<polygonCopy(polygon, j, i), polygonCopy(polygon, j, i)>>,
              refs |-> <<heap + 1, heap + 1>>]
        ELSE [ok |-> FALSE, polys |-> <<>>, refs |-> <<>>]

\* slicePolygon given one edge: the two halves, or failure (the code's false).
\* Each polygonCopy allocates its target array; heap arrays exist already.
SliceEdge(polygon, cutEdge, heap) ==
    LET i == indexOf(polygon, cutEdge[1])
        j == indexOf(polygon, cutEdge[2])
    IN  IF i # -1 /\ j # -1
        THEN [ok |-> TRUE,
              polys |-> <<polygonCopy(polygon, i, j), polygonCopy(polygon, j, i)>>,
              refs |-> <<heap + 1, heap + 2>>]
        ELSE [ok |-> FALSE, polys |-> <<>>, refs |-> <<>>]

\* remove position j (0-based) of a sequence: Array.prototype.splice(j, 1)
Splice(seq, j) == SubSeq(seq, 1, j) \o SubSeq(seq, j + 2, Len(seq))

\* slicePolygon given a list of edges: edge i is tried on polys[j], polys[j+1], ...
\* "missed" counts the edges that no polygon could be cut along; the code keeps
\* no such count and goes on to the next edge.
\* refs[k] is the address of the array polys[k].  Every slice so far replaced
\* one polygon by two new arrays, so 2 * (Len(polys) - 1) arrays exist.
RECURSIVE SliceLoop(_, _, _, _, _, _)
SliceLoop(cutEdges, i, j, polys, refs, missed) ==
    IF i >= Len(cutEdges) THEN [polys |-> polys, refs |-> refs, missed |-> missed]
    ELSE IF j >= Len(polys) THEN SliceLoop(cutEdges, i + 1, 0, polys, refs, missed + 1)
    ELSE LET result == SliceEdge(polys[j + 1], cutEdges[i + 1], 2 * (Len(polys) - 1))
         IN  IF result.ok
             THEN SliceLoop(cutEdges, i + 1, 0,
                            Splice(polys, j) \o result.polys,
                            Splice(refs, j) \o result.refs, missed)
             ELSE SliceLoop(cutEdges, i, j + 1, polys, refs, missed)

\* slicePolygon(polygon, cutEdges) for a list of cut edges; it has no path
\* that returns false
slicePolygon(polygon, cutEdges) ==
    IF Len(cutEdges) = 0
    THEN [ok |-> TRUE, polys |-> <<polygon>>, refs |-> <<InputRef>>, missed |-> 0]
    ELSE LET r == SliceLoop(cutEdges, 0, 0, <<polygon>>, <<InputRef>>, 0)
         IN  [ok |-> TRUE, polys |-> r.polys, refs |-> r.refs, missed |-> r.missed]

\* decomp: what it returns, or [threw |-> TRUE] when getCutEdges throws
decomp(polygon) ==
    IF getCutEdgesThrows(polygon) THEN [threw |-> TRUE]
    ELSE LET edges == getCutEdges(polygon)
         IN  IF Len(edges) > 0
             THEN slicePolygon(polygon, edges)
             ELSE [ok |-> TRUE, polys |-> <<polygon>>, refs |-> <<InputRef>>, missed |-> 0]

\* isSimple: both loops
isSimple(polygon) ==
    LET n == Len(polygon)
    IN  /\ \A i \in 0..(n - 2) : \A j \in 0..(i - 2) :
              ~ lineSegmentsIntersect(polygon[i + 1], polygon[i + 2],
                                      polygon[j + 1], polygon[j + 2])
        /\ \A i \in 1..(n - 3) :
              ~ lineSegmentsIntersect(polygon[1], polygon[n],
                                      polygon[i + 1], polygon[i + 2])

---------------------------------------------------------------------------
(***************************************************************************)
(* Heuristic decomposer.  acc holds the three accumulating out-parameters  *)
(* result, reflexVertices and steinerPoints.                               *)
(***************************************************************************)
\* the scan for a reflex vertex starting at vertex 1
RECURSIVE FirstReflexFromOne(_, _)
FirstReflexFromOne(polygon, i) ==
    IF i >= Len(polygon) THEN -1
    ELSE IF i >= 1 /\ polygonIsReflex(polygon, i) THEN i
    ELSE FirstReflexFromOne(polygon, i + 1)

\* index of the first reflex vertex at or after i, or -1
RECURSIVE FirstReflex(_, _)
FirstReflex(polygon, i) ==
    IF i >= Len(polygon) THEN -1
    ELSE IF polygonIsReflex(polygon, i) THEN i
    ELSE FirstReflex(polygon, i + 1)

\* the values of the locals of quickDecomp when the loop over j starts
ScanStart ==
    [lowerDist |-> MAX_VALUE, upperDist |-> MAX_VALUE,
     lowerInt |-> Pt(0, 0, 1, FreshId), upperInt |-> Pt(0, 0, 1, FreshId),
     lowerIndex |-> 0, upperIndex |-> 0]

\* first half of the body of the loop over j: the edge (j-1, j) against the
\* line through vertices i-1 and i
ScanLower(poly, i, j, st) ==
    IF /\ isLeft(polygonAt(poly, i - 1), polygonAt(poly, i), polygonAt(poly, j))
       /\ isRightOn(polygonAt(poly, i - 1), polygonAt(poly, i), polygonAt(poly, j - 1))
    THEN LET p == getIntersectionPoint(polygonAt(poly, i - 1), polygonAt(poly, i),
                                       polygonAt(poly, j), polygonAt(poly, j - 1))
             d == sqdist(poly[i + 1], p)
         IN  IF isRight(polygonAt(poly, i + 1), polygonAt(poly, i), p)
                /\ RatLess(d, st.lowerDist)
             THEN [st EXCEPT !.lowerDist = d, !.lowerInt = p, !.lowerIndex = j]
             ELSE st
    ELSE st

\* second half: the edge (j, j+1) against the line through vertices i+1 and i
ScanUpper(poly, i, j, st) ==
    IF /\ isLeft(polygonAt(poly, i + 1), polygonAt(poly, i), polygonAt(poly, j + 1))
       /\ isRightOn(polygonAt(poly, i + 1), polygonAt(poly, i), polygonAt(poly, j))
    THEN LET p == getIntersectionPoint(polygonAt(poly, i + 1), polygonAt(poly, i),
                                       polygonAt(poly, j), polygonAt(poly, j + 1))
             d == sqdist(poly[i + 1], p)
         IN  IF isLeft(polygonAt(poly, i - 1), polygonAt(poly, i), p)
                /\ RatLess(d, st.upperDist)
             THEN [st EXCEPT !.upperDist = d, !.upperInt = p, !.upperIndex = j]
             ELSE st
    ELSE st

RECURSIVE Scan(_, _, _, _)
Scan(poly, i, j, st) ==
    IF j >= Len(poly) THEN st
    ELSE Scan(poly, i, j + 1, ScanUpper(poly, i, j, ScanLower(poly, i, j, st)))

\* the point halfway between lowerInt and upperInt
SteinerPoint(lowerInt, upperInt) ==
    Pt(lowerInt.x * upperInt.d + upperInt.x * lowerInt.d,
       lowerInt.y * upperInt.d + upperInt.y * lowerInt.d,
       2 * lowerInt.d * upperInt.d, FreshId)

\* the two halves when the polygon is cut from vertex i to the new point p
SteinerSplit(poly, i, p, lowerIndex, upperIndex) ==
    IF i < upperIndex
    THEN [lowerPoly |-> Append(polygonAppend(<<>>, poly, i, upperIndex + 1), p),
          upperPoly |-> polygonAppend(
                            IF lowerIndex # 0
                            THEN polygonAppend(<<p>>, poly, lowerIndex, Len(poly))
                            ELSE <<p>>,
                            poly, 0, i + 1)]
    ELSE [lowerPoly |-> Append(polygonAppend(
                                   IF i # 0 THEN polygonAppend(<<>>, poly, i, Len(poly))
                                            ELSE <<>>,
                                   poly, 0, upperIndex + 1), p),
          upperPoly |-> polygonAppend(<<p>>, poly, lowerIndex, i + 1)]

\* the loop "connect to the closest point within the triangle"
RECURSIVE Closest(_, _, _, _, _, _)
Closest(poly, i, j, upperIndex, closestDist, closestIndex) ==
    IF j > upperIndex THEN closestIndex
    ELSE LET d == sqdist(polygonAt(poly, i), polygonAt(poly, j))
         IN  IF /\ isLeftOn(polygonAt(poly, i - 1), polygonAt(poly, i), polygonAt(poly, j))
                /\ isRightOn(polygonAt(poly, i + 1), polygonAt(poly, i), polygonAt(poly, j))
                /\ RatLess(d, closestDist)
                /\ polygonCanSee2(poly, i, j)
             THEN Closest(poly, i, j + 1, upperIndex, d, j % Len(poly))
             ELSE Closest(poly, i, j + 1, upperIndex, closestDist, closestIndex)

\* VertexSplit whose last append stops before vertex i
VertexSplitShort(poly, i, closestIndex) ==
    IF i < closestIndex
    THEN [lowerPoly |-> polygonAppend(<<>>, poly, i, closestIndex + 1),
          upperPoly |-> polygonAppend(
                            IF closestIndex # 0
                            THEN polygonAppend(<<>>, poly, closestIndex, Len(poly))
                            ELSE <<>>,
                            poly, 0, i + 1)]
    ELSE [lowerPoly |-> polygonAppend(
                            IF i # 0 THEN polygonAppend(<<>>, poly, i, Len(poly))
                                     ELSE <<>>,
                            poly, 0, closestIndex + 1),
          upperPoly |-> polygonAppend(<<>>, poly, closestIndex, i)]

\* the two halves when the polygon is cut from vertex i to vertex closestIndex
VertexSplit(poly, i, closestIndex) ==
    IF i < closestIndex
    THEN [lowerPoly |-> polygonAppend(<<>>, poly, i, closestIndex + 1),
          upperPoly |-> polygonAppend(
                            IF closestIndex # 0
                            THEN polygonAppend(<<>>, poly, closestIndex, Len(poly))
                            ELSE <<>>,
                            poly, 0, i + 1)]
    ELSE [lowerPoly |-> polygonAppend(
                            IF i # 0 THEN polygonAppend(<<>>, poly, i, Len(poly))
                                     ELSE <<>>,
                            poly, 0, closestIndex + 1),
          upperPoly |-> polygonAppend(<<>>, poly, closestIndex, i + 1)]

\* the depth guard tested before level is incremented
MaxLevelReachedLate(level, maxlevel) == level - 1 > maxlevel

\* the depth guard of quickDecomp, level being the incremented level
MaxLevelReached(level, maxlevel) == level > maxlevel

\* the trace of invocations: what this invocation did, and its level when it
\* did it
Logged(acc, level, did) ==
    [acc EXCEPT !.log = Append(@, [level |-> level, did |-> did])]

\* quickDecomp(polygon, result, reflexVertices, steinerPoints, delta, maxlevel,
\* level); delta is never read by the code.  self is the address of the array
\* polygon; every invocation allocates the two arrays lowerPoly and upperPoly,
\* and acc.refs[k] is the address of the array acc.result[k].
RECURSIVE quickDecomp(_, _, _, _, _)
quickDecomp(polygon, self, acc, maxlevel, level) ==
    LET lowerRef == acc.heap + 1
        upperRef == acc.heap + 2
        acc0 == [acc EXCEPT !.heap = @ + 2]
    IN
    IF Len(polygon) < 3 THEN Logged(acc0, level, "small")
    ELSE IF MaxLevelReached(level + 1, maxlevel) THEN Logged(acc0, level + 1, "cutoff")
    ELSE LET i == FirstReflex(polygon, 0) IN
    IF i = -1 THEN [Logged(acc0, level + 1, "push")
                        EXCEPT !.result = Append(@, polygon), !.refs = Append(@, self)]
    ELSE
    LET n   == Len(polygon)
        st  == Scan(polygon, i, 0, ScanStart)
        acc1 == [Logged(acc0, level + 1, "reflex")
                     EXCEPT !.reflexVertices = Append(@, polygon[i + 1])]
        steiner == st.lowerIndex = (st.upperIndex + 1) % n
        p == SteinerPoint(st.lowerInt, st.upperInt)
        upperIndex == IF st.lowerIndex > st.upperIndex
                      THEN st.upperIndex + n ELSE st.upperIndex
        halves == IF steiner
                  THEN SteinerSplit(polygon, i, p, st.lowerIndex, st.upperIndex)
                  ELSE VertexSplit(polygon, i,
                           Closest(polygon, i, st.lowerIndex, upperIndex, MAX_VALUE, 0))
        acc2 == IF steiner
                THEN [acc1 EXCEPT !.steinerPoints = Append(@, p)]
                ELSE acc1
    IN  IF ~ steiner /\ upperIndex < st.lowerIndex THEN acc1
        ELSE IF Len(halves.lowerPoly) < Len(halves.upperPoly)
             THEN quickDecomp(halves.upperPoly, upperRef,
                              quickDecomp(halves.lowerPoly, lowerRef, acc2,
                                          maxlevel, level + 1),
                              maxlevel, level + 1)
             ELSE quickDecomp(halves.lowerPoly, lowerRef,
                              quickDecomp(halves.upperPoly, upperRef, acc2,
                                          maxlevel, level + 1),
                              maxlevel, level + 1)

---------------------------------------------------------------------------
(***************************************************************************)
(* Normalization.                                                          *)
(***************************************************************************)
\* Array.prototype.splice(i, 1): nothing happens when i is past the end
SpliceAt(polygon, i) == IF i < Len(polygon) THEN Splice(polygon, i) ELSE polygon

\* the inner loop of removeDuplicatePoints: pi is compared with polygon[j],
\* polygon[j-1], ..., polygon[0] and position i is spliced at every match
RECURSIVE DupInner(_, _, _, _, _)
DupInner(polygon, pi, i, j, precision) ==
    IF j < 0 THEN polygon
    ELSE IF pointsEqual(pi, polygon[j + 1], precision)
         THEN DupInner(SpliceAt(polygon, i), pi, i, j - 1, precision)
         ELSE DupInner(polygon, pi, i, j - 1, precision)

\* the outer loop of removeDuplicatePoints leaving at the first removal
RECURSIVE DupOuterOnce(_, _, _)
DupOuterOnce(polygon, i, precision) ==
    IF i < 1 THEN polygon
    ELSE LET r == DupInner(polygon, polygon[i + 1], i, i - 1, precision)
         IN  IF r # polygon THEN r ELSE DupOuterOnce(r, i - 1, precision)

RECURSIVE DupOuter(_, _, _)
DupOuter(polygon, i, precision) ==
    IF i < 1 THEN polygon
    ELSE DupOuter(DupInner(polygon, polygon[i + 1], i, i - 1, precision),
                  i - 1, precision)

removeDuplicatePoints(polygon, precision) ==
    DupOuter(polygon, Len(polygon) - 1, precision)

---------------------------------------------------------------------------
(***************************************************************************)
(* Geometry the claims are stated in (not code of the library).            *)
(***************************************************************************)
Min(a, b) == IF a < b THEN a ELSE b
Max(a, b) == IF a < b THEN b ELSE a

Cross(a, b, c) == (b.x - a.x) * (c.y - a.y) - (c.x - a.x) * (b.y - a.y)

\* c lies on the closed segment ab (integer points)
OnSegment(a, b, c) ==
    /\ Cross(a, b, c) = 0
    /\ Min(a.x, b.x) <= c.x /\ c.x <= Max(a.x, b.x)
    /\ Min(a.y, b.y) <= c.y /\ c.y <= Max(a.y, b.y)

\* the closed segments ab and cd have a point in common (integer points)
SegmentsShare(a, b, c, d) ==
    \/ /\ Cross(a, b, c) * Cross(a, b, d) < 0
       /\ Cross(c, d, a) * Cross(c, d, b) < 0
    \/ OnSegment(a, b, c) \/ OnSegment(a, b, d)
    \/ OnSegment(c, d, a) \/ OnSegment(c, d, b)

\* edge k of a closed polygon joins vertex k to vertex k+1 (cyclically), k in 1..n
Nxt(poly, k) == poly[(k % Len(poly)) + 1]

EdgesAdjacent(n, i, j) == i = j \/ (i % n) + 1 = j \/ (j % n) + 1 = i

\* some two non-adjacent edges of the closed polygon have a point in common
NonAdjacentTouch(poly) ==
    \E i, j \in 1..Len(poly) :
        /\ i < j
        /\ ~ EdgesAdjacent(Len(poly), i, j)
        /\ SegmentsShare(poly[i], Nxt(poly, i), poly[j], Nxt(poly, j))

SameCoords(a, b) == a.x * b.d = b.x * a.d /\ a.y * b.d = b.y * a.d

\* a simple polygon: distinct vertices, consecutive edges meet only in their
\* common vertex, other edges do not meet at all
IsSimplePolygon(poly) ==
    /\ Len(poly) >= 3
    /\ \A i, j \in 1..Len(poly) : i < j => ~ SameCoords(poly[i], poly[j])
    /\ \A i \in 1..Len(poly) :
          /\ ~ OnSegment(poly[i], Nxt(poly, i), Nxt(poly, i + 1))
          /\ ~ OnSegment(Nxt(poly, i), Nxt(poly, i + 1), poly[i])
    /\ ~ NonAdjacentTouch(poly)

\* twice the signed area (shoelace formula) as a rational <<num, den>>
RECURSIVE Area2From(_, _)
Area2From(poly, k) ==
    IF k > Len(poly) THEN <<0, 1>>
    ELSE LET a == poly[k]
             b == Nxt(poly, k)
             rest == Area2From(poly, k + 1)
             num == a.x * b.y - b.x * a.y
             den == a.d * b.d
             g == Gcd(Abs(num * rest[2] + rest[1] * den), den * rest[2])
         IN  << (num * rest[2] + rest[1] * den) \div g, (den * rest[2]) \div g >>

Area2(poly) == Area2From(poly, 1)

IsCCW(poly) == Area2(poly)[1] > 0

\* sum of the areas of a list of polygons
RECURSIVE SumArea2(_, _)
SumArea2(polys, k) ==
    IF k > Len(polys) THEN <<0, 1>>
    ELSE LET a == Area2(polys[k])
             rest == SumArea2(polys, k + 1)
             g == Gcd(Abs(a[1] * rest[2] + rest[1] * a[2]), a[2] * rest[2])
         IN  << (a[1] * rest[2] + rest[1] * a[2]) \div g, (a[2] * rest[2]) \div g >>

\* every turn of the closed polygon is left or straight
IsConvex(poly) ==
    \A k \in 1..Len(poly) :
        triangleArea(poly[k], Nxt(poly, k), Nxt(poly, k + 1)) >= 0

---------------------------------------------------------------------------
(***************************************************************************)
(* Inputs.                                                                 *)
(***************************************************************************)
GridPoints == { [x |-> x, y |-> y, d |-> 1, id |-> 0] : x \in 0..MaxX, y \in 0..MaxY }

\* every vertex its own point object: the object at position k has id k
Distinct(seq) == [k \in 1..Len(seq) |-> [seq[k] EXCEPT !.id = k]]

\* open chains of n grid points no two of whose edges touch, but for
\* consecutive edges in their common vertex
ChainOK(c, p) ==
    /\ \A k \in 1..Len(c) : ~ SameCoords(c[k], p)
    /\ Len(c) >= 2 =>
          /\ ~ OnSegment(c[Len(c) - 1], c[Len(c)], p)
          /\ ~ OnSegment(c[Len(c)], p, c[Len(c) - 1])
          /\ \A k \in 1..(Len(c) - 2) :
                ~ SegmentsShare(c[k], c[k + 1], c[Len(c)], p)

RECURSIVE Chains(_)
Chains(n) ==
    IF n = 1 THEN { <<p>> : p \in GridPoints }
    ELSE { Append(cp[1], cp[2]) :
             cp \in { cq \in Chains(n - 1) \X GridPoints : ChainOK(cq[1], cq[2]) } }

\* the simple polygons with n vertices on the grid, in either orientation
SimplePolygons(n) == { Distinct(c) : c \in { c \in Chains(n) : IsSimplePolygon(c) } }

\* those in counter-clockwise order
SimpleCCW(n) == { c \in SimplePolygons(n) : IsCCW(c) }

\* every sequence of n grid points
AnyPolygons(n) == { Distinct(c) : c \in [1..n -> GridPoints] }

\* equal coordinates held by one and the same point object
Shared(seq) == [k \in 1..Len(seq) |-> [seq[k] EXCEPT !.id = 1 + seq[k].x + (MaxX + 1) * seq[k].y]]

\* the L-shaped hexagon [[0,0],[2,0],[2,1],[1,1],[1,2],[0,2]]
LShape ==
    Distinct(<< [x |-> 0, y |-> 0, d |-> 1, id |-> 0], [x |-> 2, y |-> 0, d |-> 1, id |-> 0],
                [x |-> 2, y |-> 1, d |-> 1, id |-> 0], [x |-> 1, y |-> 1, d |-> 1, id |-> 0],
                [x |-> 1, y |-> 2, d |-> 1, id |-> 0], [x |-> 0, y |-> 2, d |-> 1, id |-> 0] >>)

\* closed loops without zero-length edges on the rows 0..MaxSliceY of the grid,
\* equal vertices being one and the same point object
SliceInputs(maxLen) ==
    UNION { { Shared(c) : c \in { c \in [1..n -> { g \in GridPoints : g.y <= MaxSliceY }] :
                                     \A k \in 1..n : c[k] # Nxt(c, k) } } :
            n \in 3..maxLen }

\* the simple counter-clockwise polygons of up to maxLen vertices, and the L
DecompInputs(maxLen) == {LShape} \cup UNION { SimpleCCW(n) : n \in 3..maxLen }

---------------------------------------------------------------------------
(***************************************************************************)
(* The library as a state machine: a caller owns one polygon and calls the *)
(* exported functions on it.                                               *)
(*   polygon  the caller's vertex array                                    *)
(*   op, arg  the last call and its argument; ret what it returned         *)
(*   pre      the vertex array as it was when the last call started        *)
(*   prevOp, prevArg, prevPre  the same for the call before the last one   *)
(*   calls    the number of calls made                                     *)
(***************************************************************************)
VARIABLES polygon, pre, op, arg, prevOp, prevArg, prevPre, ret, calls

vars == <<polygon, pre, op, arg, prevOp, prevArg, prevPre, ret, calls>>

NoRet == [none |-> TRUE]
\* refs: the addresses of the arrays in result; heap: how many arrays the
\* decomposition has allocated; log: the invocations so far
EmptyAcc == [result |-> <<>>, reflexVertices |-> <<>>, steinerPoints |-> <<>>,
             refs |-> <<>>, heap |-> 0, log |-> <<>>]

\* default value of quickDecomp's maxlevel parameter
DefaultMaxLevel == 100

Start(p) ==
    /\ polygon = p
    /\ pre = p
    /\ op = "none" /\ arg = 0
    /\ prevOp = "none" /\ prevArg = 0 /\ prevPre = p
    /\ ret = NoRet
    /\ calls = 0

Called(name, a, max) ==
    /\ calls < max
    /\ calls' = calls + 1
    /\ pre' = polygon
    /\ prevOp' = op /\ prevArg' = arg /\ prevPre' = pre
    /\ op' = name /\ arg' = a

\* decomp(polygon)
Decomp ==
    /\ Called("decomp", 0, MaxDecompCalls)
    /\ ret' = decomp(polygon)
    /\ UNCHANGED polygon

\* quickDecomp(polygon) with default arguments
QuickDecomp ==
    /\ Called("quickDecomp", 0, MaxDecompCalls)
    /\ ret' = quickDecomp(polygon, InputRef, EmptyAcc, DefaultMaxLevel, 0)
    /\ UNCHANGED polygon

InitDecomp == \E p \in DecompInputs(MaxSimpleLen) : Start(p)
NextDecomp == Decomp \/ QuickDecomp
SpecDecomp == InitDecomp /\ [][NextDecomp]_vars

\* makeCCW(polygon)
MakeCCW ==
    /\ Called("makeCCW", 0, MaxCalls)
    /\ polygon' = makeCCW(polygon).polygon
    /\ ret' = makeCCW(polygon).ret

\* removeDuplicatePoints(polygon, precision)
RemoveDuplicatePoints ==
    \E precision \in 0..MaxPrecision :
        /\ Called("removeDuplicatePoints", precision, MaxCalls)
        /\ polygon' = removeDuplicatePoints(polygon, precision)
        /\ ret' = NoRet

\* isSimple(polygon)
IsSimple ==
    /\ Called("isSimple", 0, MaxCalls)
    /\ ret' = [threw |-> FALSE, val |-> isSimple(polygon)]
    /\ UNCHANGED polygon

\* every vertex sequence of up to maxLen vertices, and the simple polygons of
\* up to maxSimple vertices
NormInputs(maxLen, maxSimple) ==
    UNION { AnyPolygons(n) : n \in 0..maxLen }
    \cup UNION { SimplePolygons(n) : n \in 3..maxSimple }

Init == \E p \in NormInputs(MaxLen, MaxSimpleLen) : Start(p)
Next == MakeCCW \/ RemoveDuplicatePoints \/ IsSimple
Spec == Init /\ [][Next]_vars

\* decomp alone, on polygons that hold one point object at several positions
InitSlice == \E p \in SliceInputs(MaxSliceLen) : Start(p)
NextSlice == Decomp
SpecSlice == InitSlice /\ [][NextSlice]_vars

\* accumulators a caller hands to quickDecomp: new empty arrays, or the arrays
\* an earlier decomposition of the L-shaped hexagon filled
AccInputs == {EmptyAcc, quickDecomp(LShape, InputRef, EmptyAcc, DefaultMaxLevel, 0)}

\* quickDecomp(polygon, result, reflexVertices, steinerPoints, delta, maxlevel)
QuickDecompWith ==
    \E acc \in AccInputs, maxlevel \in 0..MaxLevelArg :
        /\ Called("quickDecompWith", [acc |-> acc, maxlevel |-> maxlevel], MaxDecompCalls)
        /\ ret' = quickDecomp(polygon, InputRef, acc, maxlevel, 0)
        /\ UNCHANGED polygon

\* every vertex sequence of up to maxLen vertices, and the simple
\* counter-clockwise polygons of up to maxSimple vertices
ArgInputs(maxLen, maxSimple) ==
    UNION { AnyPolygons(n) : n \in 0..maxLen } \cup DecompInputs(maxSimple)

\* the decomposers called with any arguments
InitArgs == \E p \in ArgInputs(MaxLen, MaxSimpleLen) : Start(p)
NextArgs == Decomp \/ QuickDecompWith
SpecArgs == InitArgs /\ [][NextArgs]_vars

\* polygonAt(polygon, i), as the functions of the module call it
PolygonAt ==
    \E i \in (-MaxIndex)..MaxIndex :
        /\ Called("polygonAt", i, MaxDecompCalls)
        /\ ret' = polygonAt(polygon, i)
        /\ UNCHANGED polygon

\* cyclic indexing alone, on every vertex sequence of up to MaxLen vertices
InitAt == \E p \in UNION { AnyPolygons(n) : n \in 0..MaxLen } : Start(p)
NextAt == PolygonAt
SpecAt == InitAt /\ [][NextAt]_vars

---------------------------------------------------------------------------
(***************************************************************************)
(* Properties.                                                             *)
(***************************************************************************)
Decomposed == op \in {"decomp", "quickDecomp"}

\* the list of polygons the last decomposition returned
Pieces == IF op = "decomp" THEN ret.polys ELSE ret.result

\* the decomposition returned a list (decomp may return false instead)
ReturnedList == op = "quickDecomp" \/ ret.ok

RatEq(p, q) == p[1] * q[2] = q[1] * p[2]

\* C1: the pieces decomp and quickDecomp return for a simple counter-clockwise
\* polygon have areas that sum to the area of the polygon
C1_AreaPreserved ==
    (Decomposed /\ IsSimplePolygon(pre) /\ IsCCW(pre)) =>
        /\ ReturnedList
        /\ RatEq(SumArea2(Pieces, 1), Area2(pre))

\* a decomposition that cut a polygon with a reflex vertex into several pieces
C1_Witness ==
    /\ Decomposed /\ IsSimplePolygon(pre) /\ IsCCW(pre)
    /\ ReturnedList
    /\ Len(Pieces) >= 3
    /\ RatEq(SumArea2(Pieces, 1), Area2(pre))

\* C2: every piece decomp and quickDecomp return for a simple counter-clockwise
\* polygon is convex: no turn of a piece is a right turn
C2_PiecesConvex ==
    (Decomposed /\ IsSimplePolygon(pre) /\ IsCCW(pre)) =>
        /\ ReturnedList
        /\ \A k \in 1..Len(Pieces) : Len(Pieces[k]) >= 3 /\ IsConvex(Pieces[k])

\* a non-convex polygon that quickDecomp cut with a Steiner point
C2_Witness ==
    /\ op = "quickDecomp" /\ IsSimplePolygon(pre) /\ IsCCW(pre)
    /\ ~ IsConvex(pre)
    /\ Len(ret.steinerPoints) >= 1
    /\ \A k \in 1..Len(Pieces) : IsConvex(Pieces[k])

\* C3: quickDecomp of a convex counter-clockwise polygon returns the polygon
\* alone, vertices in their order, and records no reflex vertex and no
\* Steiner point
C3_ConvexUnsplit ==
    (op = "quickDecomp" /\ Len(pre) >= 3 /\ IsConvex(pre) /\ IsCCW(pre)) =>
        /\ ret.result = <<pre>>
        /\ ret.reflexVertices = <<>>
        /\ ret.steinerPoints = <<>>

\* a convex polygon with a straight turn went through quickDecomp
C3_Witness ==
    /\ op = "quickDecomp" /\ Len(pre) >= 5 /\ IsConvex(pre) /\ IsCCW(pre)
    /\ \E k \in 1..Len(pre) : triangleArea(pre[k], Nxt(pre, k), Nxt(pre, k + 1)) = 0
    /\ ret.result = <<pre>>

\* the set of edges of a closed polygon, each edge the set of its two vertices
EdgeSet(poly) == { {poly[k], Nxt(poly, k)} : k \in 1..Len(poly) }

Vertices(poly) == { poly[k] : k \in 1..Len(poly) }

\* the reflex vertex (1,1) of the L-shaped hexagon
LReflex == LShape[4]

\* C4: decomp and quickDecomp cut the L-shaped hexagon into exactly two convex
\* pieces made of the hexagon's vertices, without Steiner point, and the two
\* pieces share exactly one edge, a diagonal from the reflex vertex to another
\* vertex of the hexagon
C4_LShape ==
    (Decomposed /\ pre = LShape) =>
        /\ ReturnedList
        /\ Len(Pieces) = 2
        /\ IsConvex(Pieces[1]) /\ IsConvex(Pieces[2])
        /\ Vertices(Pieces[1]) \cup Vertices(Pieces[2]) = Vertices(LShape)
        /\ op = "quickDecomp" => ret.steinerPoints = <<>>
        /\ \E v \in Vertices(LShape) :
              /\ v # LReflex
              /\ {v, LReflex} \notin EdgeSet(LShape)
              /\ EdgeSet(Pieces[1]) \cap EdgeSet(Pieces[2]) = { {v, LReflex} }

\* quickDecomp has cut the L-shaped hexagon
C4_Witness ==
    /\ op = "quickDecomp" /\ pre = LShape
    /\ Len(ret.result) = 2
    /\ ret.reflexVertices = <<LReflex>>

C4_WitnessDecomp ==
    /\ op = "decomp" /\ pre = LShape
    /\ Len(ret.polys) = 2

\* seq in the opposite order
IsReverseOf(seq, other) ==
    /\ Len(seq) = Len(other)
    /\ \A k \in 1..Len(seq) : seq[k] = other[Len(other) + 1 - k]

\* C5: after makeCCW a simple polygon is in counter-clockwise order; makeCCW
\* returns true exactly when it reversed the vertices and false exactly when
\* it left them as they were
C5_MakeCCW ==
    (op = "makeCCW" /\ IsSimplePolygon(pre)) =>
        /\ ~ ret.threw
        /\ IsCCW(polygon)
        /\ ret.val <=> IsReverseOf(polygon, pre)
        /\ ~ ret.val <=> polygon = pre

\* makeCCW has reversed a clockwise polygon with a reflex vertex
C5_Witness ==
    /\ op = "makeCCW" /\ IsSimplePolygon(pre)
    /\ Len(pre) >= 5 /\ ~ IsConvex(polygonReverse(pre))
    /\ ~ IsCCW(pre) /\ IsCCW(polygon)
    /\ ret.val

\* C6 as stated: for any polygon of at least 3 vertices the second of two
\* consecutive calls of makeCCW returns false and leaves the order unchanged
C6_SecondCallFalse_AnyPolygon ==
    (op = "makeCCW" /\ prevOp = "makeCCW" /\ Len(pre) >= 3) =>
        /\ ~ ret.threw
        /\ ret.val = FALSE
        /\ polygon = pre

\* the lowest, then right-most vertex occurs at one position only and is not
\* on a line with its two neighbours
AnchorProper(poly) ==
    LET br == BottomRight(poly, 1, 0)
    IN  /\ \A k \in 1..Len(poly) : k # br + 1 => ~ SameCoords(poly[k], poly[br + 1])
        /\ triangleArea(polygonAt(poly, br - 1), polygonAt(poly, br),
                        polygonAt(poly, br + 1)) # 0

\* C6 amended: for a polygon of at least 3 vertices whose lowest, then
\* right-most vertex is unique and not collinear with its neighbours (every
\* simple polygon is one) the second of two consecutive calls of makeCCW
\* returns false and leaves the order unchanged
C6_SecondCallFalse ==
    (op = "makeCCW" /\ prevOp = "makeCCW" /\ Len(pre) >= 3
        /\ (AnchorProper(pre) \/ IsSimplePolygon(pre))) =>
        /\ ~ ret.threw
        /\ ret.val = FALSE
        /\ polygon = pre

\* makeCCW was called twice on a clockwise simple polygon: the first call
\* reversed it
C6_Witness ==
    /\ op = "makeCCW" /\ prevOp = "makeCCW"
    /\ IsSimplePolygon(pre) /\ Len(pre) >= 4
    /\ IsReverseOf(pre, prevPre)
    /\ ret.val = FALSE /\ polygon = pre

\* a vertex of poly at position k coincides with one at a smaller position
HasEarlierTwin(poly, k, precision) ==
    \E j \in 1..(k - 1) : pointsEqual(poly[k], poly[j], precision)

\* sub is poly with some positions left out (the order is kept)
RECURSIVE IsSubsequence(_, _)
IsSubsequence(sub, poly) ==
    IF Len(sub) = 0 THEN TRUE
    ELSE IF Len(poly) = 0 THEN FALSE
    ELSE IF Head(sub) = Head(poly) THEN IsSubsequence(Tail(sub), Tail(poly))
    ELSE IsSubsequence(sub, Tail(poly))

\* distinct point objects: no object at two positions
ObjectsDistinct(poly) ==
    \A i, j \in 1..Len(poly) : i # j => poly[i].id # poly[j].id

\* C7: removeDuplicatePoints keeps every vertex that coincides with no vertex
\* at a smaller index, and keeps the order of the vertices it leaves
C7_OnlyDuplicatesRemoved ==
    (op = "removeDuplicatePoints") =>
        /\ IsSubsequence(polygon, pre)
        /\ \A k \in 1..Len(pre) :
              ~ HasEarlierTwin(pre, k, arg) => pre[k] \in Vertices(polygon)

\* C8: a second removeDuplicatePoints with the same precision removes nothing
C8_Idempotent ==
    (op = "removeDuplicatePoints" /\ prevOp = "removeDuplicatePoints"
        /\ arg = prevArg) =>
        polygon = pre

\* the first of two calls removed vertices and left at least two
C8_Witness ==
    /\ op = "removeDuplicatePoints" /\ prevOp = "removeDuplicatePoints"
    /\ arg = prevArg
    /\ Len(pre) < Len(prevPre) /\ Len(pre) >= 2
    /\ polygon = pre

\* C9: isSimple returns true exactly when no two non-adjacent edges of the
\* closed polygon have a point in common
C9_IsSimpleExact ==
    (op = "isSimple") => (ret.val <=> ~ NonAdjacentTouch(pre))

\* C10: when a cut edge cannot be located in any polygon being cut, decomp
\* returns the failure value; a returned list has one polygon more than there
\* are cut edges
C10_SliceFailureReported ==
    (op = "decomp" /\ Len(getCutEdges(pre)) > 0) =>
        /\ ret.missed > 0 => ~ ret.ok
        /\ ret.ok => Len(ret.polys) = Len(getCutEdges(pre)) + 1


\* C11: on a polygon of 0, 1 or 2 vertices quickDecomp returns result,
\* reflexVertices and steinerPoints as it received them, and decomp returns
\* without throwing
C11_UndersizedNoFailure ==
    Len(pre) < 3 =>
        /\ op = "quickDecompWith" =>
              /\ ret.result = arg.acc.result
              /\ ret.reflexVertices = arg.acc.reflexVertices
              /\ ret.steinerPoints = arg.acc.steinerPoints
        /\ op = "decomp" => ret # [threw |-> TRUE]

\* the last call returned a list of polygons
ReturnedPieces ==
    \/ op = "quickDecompWith"
    \/ op = "decomp" /\ ret # [threw |-> TRUE] /\ ret.ok

\* the polygons the last call added to its result, and the addresses of
\* their arrays
Added ==
    IF op = "decomp" THEN ret.polys
    ELSE SubSeq(ret.result, Len(arg.acc.result) + 1, Len(ret.result))

AddedRefs ==
    IF op = "decomp" THEN ret.refs
    ELSE SubSeq(ret.refs, Len(arg.acc.refs) + 1, Len(ret.refs))

\* C12 as claimed: no polygon that decomp or quickDecomp returns is the input
\* polygon's own array
C12_PiecesFresh ==
    ReturnedPieces => \A k \in 1..Len(AddedRefs) : AddedRefs[k] # InputRef

\* the call had a polygon to return: quickDecomp returns none for fewer than
\* 3 vertices or maxlevel 0
MayReturnInput ==
    op = "quickDecompWith" => Len(pre) >= 3 /\ arg.maxlevel >= 1

\* C12: every polygon that decomp or quickDecomp returns is a newly allocated
\* array, not the input's, not another piece's and not one the caller handed
\* in, except when the call makes no cut and returns the input polygon whole
\* as the only piece, as it does for every polygon without a reflex vertex:
\* then that piece is the input polygon's own array
C12_CutPiecesFresh ==
    ReturnedPieces =>
        /\ (\E k \in 1..Len(AddedRefs) : AddedRefs[k] = InputRef) <=> Added = <<pre>>
        /\ (IsConvex(pre) /\ MayReturnInput) => AddedRefs = <<InputRef>>
        /\ \A j, k \in 1..Len(AddedRefs) : j < k => AddedRefs[j] # AddedRefs[k]
        /\ op = "quickDecompWith" =>
              \A k \in 1..Len(AddedRefs) :
                  \A j \in 1..Len(arg.acc.refs) : AddedRefs[k] # arg.acc.refs[j]

\* decomp cut a polygon into three or more arrays of its own
C12_Witness ==
    /\ op = "decomp" /\ ReturnedPieces
    /\ Len(AddedRefs) >= 3
    /\ \A k \in 1..Len(AddedRefs) : AddedRefs[k] # InputRef
    /\ \A j, k \in 1..Len(AddedRefs) : j < k => AddedRefs[j] # AddedRefs[k]

\* the invocations of the last quickDecomp, the outermost first
Invocations == SubSeq(ret.log, Len(arg.acc.log) + 1, Len(ret.log))

IsPrefix(short, long) ==
    Len(short) <= Len(long) /\ SubSeq(long, 1, Len(short)) = short

\* C13: quickDecomp called with maxLevel >= 0 returns after at most
\* 2^(maxLevel+1) - 1 invocations; no invocation looks for a reflex vertex
\* with its level above maxLevel; an invocation whose incremented level is
\* above maxLevel adds nothing, so the pieces of the result are those the
\* other invocations pushed, after everything the caller handed in
C13_DepthGuard ==
    op = "quickDecompWith" =>
        /\ Len(Invocations) >= 1
        /\ Len(Invocations) <= 2 ^ (arg.maxlevel + 1) - 1
        /\ \A k \in 1..Len(Invocations) :
              /\ Invocations[k].did \in {"push", "reflex"} =>
                    Invocations[k].level <= arg.maxlevel
              /\ Invocations[k].level > arg.maxlevel => Invocations[k].did = "cutoff"
        /\ IsPrefix(arg.acc.result, ret.result)
        /\ IsPrefix(arg.acc.reflexVertices, ret.reflexVertices)
        /\ IsPrefix(arg.acc.steinerPoints, ret.steinerPoints)
        /\ Len(Added) =
              Cardinality({ k \in 1..Len(Invocations) : Invocations[k].did = "push" })
        /\ Len(ret.reflexVertices) - Len(arg.acc.reflexVertices) =
              Cardinality({ k \in 1..Len(Invocations) : Invocations[k].did = "reflex" })

\* a decomposition cut short below its first split: a piece was pushed before
\* an invocation hit the guard, and it is still in the result
C13_Witness ==
    /\ op = "quickDecompWith" /\ arg.maxlevel >= 2
    /\ Len(arg.acc.result) >= 1
    /\ \E j, k \in 1..Len(Invocations) :
          /\ j < k
          /\ Invocations[j].did = "push"
          /\ Invocations[k].did = "cutoff"
    /\ Len(Added) >= 1
    /\ IsPrefix(arg.acc.result, ret.result)

\* C14: for a polygon of n >= 1 vertices and any integer i, polygonAt returns
\* the vertex at position i mod n, the remainder taken in 0..n-1
C14_CyclicIndex ==
    (op = "polygonAt" /\ Len(pre) >= 1) => ret = pre[(arg % Len(pre)) + 1]

=============================================================================
